---- MODULE Spec2Model ----
(***************************************************************************)
(* Model of djongo/transaction.py: the Atomic context manager / decorator  *)
(* over pymongo sessions, and its commit_with_retry loop.                   *)
(*                                                                         *)
(* Python objects are modelled by their fields.  Sessions are numbered in  *)
(* the order client.start_session() creates them (0 is None / no session). *)
(* Every thread owns its own DatabaseWrapper (django.db.connections is     *)
(* thread-local); Atomic objects are ordinary heap objects and may be      *)
(* shared.                                                                 *)
(***************************************************************************)
EXTENDS Integers, Sequences, FiniteSets, TLC

\* ---------------------------------------------------------------- bounds
MaxSessions == 2      \* start_session() calls in one run of the model
MaxDepth == 2         \* nesting depth of with-blocks per thread
MaxRetry == 2         \* largest retry_count passed to commit_with_retry
MaxTimeout == 2       \* largest timeout passed to commit_with_retry
\* commit() calls commit_with_retry(self.session) with the defaults of the
\* signature (1000 attempts, 30 seconds); the model scales both down.
DefaultRetryCount == 2
DefaultTimeout == 2

\* ---------------------------------------------------------------- values
None == 0
NoClient == "NoClient"
NoError == "NoError"
OperationFailure == "OperationFailure"   \* pymongo.errors.OperationFailure
CommitError == "CommitError"             \* any other error of commit_transaction
AbortError == "AbortError"               \* an error of abort_transaction
StartError == "StartError"               \* an error of start_session/start_transaction
BlockError == "BlockError"               \* an error raised by the guarded block
AttributeError == "AttributeError"       \* delattr of a missing attribute

AllThreads == {"t1", "t2"}
Objects == {"oa", "ob"}
DEFAULT_DB_ALIAS == "default"
\* The client a thread's DatabaseWrapper creates for it.
ClientOf(t) == IF t = "t1" THEN "c1" ELSE "c2"
Clients == {ClientOf(t) : t \in AllThreads}

Outcomes == {"ok", OperationFailure, CommitError}
EnterFailures == {"none", "start_session", "start_transaction"}
\* "start": start_session or start_transaction raised; "commit":
\* commit_with_retry raised; "abort": abort_transaction raised; "block": a
\* guarded block raised; "own": a block ended its transaction itself.
Faults == {"start", "commit", "abort", "block", "own"}

VARIABLES
    obj,                \* Atomic objects: using, savepoint, durable, session, client
    client_connection,  \* per thread: db.client_connection (NoClient while None)
    client_session,     \* per client: its `session` attribute (None while absent)
    sessions,           \* the sessions created so far, in creation order
    stack,              \* per thread: the with-blocks it is inside, innermost last
    exc,                \* per thread: the exception propagating through its blocks
    result,             \* per thread: what the caller of its last top-level scope saw
    lastExit,           \* per thread: observation of its last __exit__
    faults,             \* what went wrong so far: see Faults
    cwr                 \* observation of the last commit_with_retry call

vars == <<obj, client_connection, client_session, sessions, stack, exc, result,
          lastExit, faults, cwr>>

\* The mutable program state the methods of Atomic work on.
Heap == [obj |-> obj, conn |-> client_connection, att |-> client_session,
         sess |-> sessions]

\* ------------------------------------------------------- pymongo sessions
\* before is the session found attached to the client when this one was
\* made, depth the number of with-blocks the thread is in once inside.
NewSession(t, c, o, before, depth) ==
    [thread |-> t, client |-> c, obj |-> o, before |-> before, depth |-> depth,
     txn |-> "none", ended |-> FALSE, ends |-> 0]

in_transaction(h, s) == h.sess[s].txn = "open"

end_session(h, s) ==
    [h EXCEPT !.sess[s].ended = TRUE, !.sess[s].ends = @ + 1]

\* ---------------------------------------------------- commit_with_retry
\* outcomes scripts the backend: outcomes[i] is what the i-th call of
\* session.commit_transaction() does; past the script the backend keeps
\* failing with OperationFailure.
OutcomeAt(outcomes, i) ==
    IF i <= Len(outcomes) THEN outcomes[i] ELSE OperationFailure

\* clock scripts time.time(): clock[i] is its i-th reading; past the script
\* the clock stands still.
TimeAt(clock, i) ==
    IF i <= Len(clock) THEN clock[i] ELSE clock[Len(clock)]

\* The loop giving up one attempt early: `count >= retry_count`.
RECURSIVE commit_loop_gives_up_early(_, _, _, _, _, _)
commit_loop_gives_up_early(count, start_time, outcomes, clock, retry_count, timeout) ==
    LET attempt == count + 1
        r == OutcomeAt(outcomes, attempt)
        c == count + 1
    IN  IF r = "ok"
        THEN [attempts |-> attempt, raised |-> NoError, raisedAt |-> 0,
              reads |-> count + 1]
        ELSE IF r # OperationFailure \/ c >= retry_count
                  \/ TimeAt(clock, c + 1) - start_time >= timeout
        THEN [attempts |-> attempt, raised |-> r, raisedAt |-> attempt,
              reads |-> c]
        ELSE commit_loop_gives_up_early(c, start_time, outcomes, clock,
                                        retry_count, timeout)

\* The loop catching every exception: `except Exception`.
RECURSIVE commit_loop_retries_any_error(_, _, _, _, _, _)
commit_loop_retries_any_error(count, start_time, outcomes, clock, retry_count, timeout) ==
    LET attempt == count + 1
        r == OutcomeAt(outcomes, attempt)
        c == count + 1
    IN  IF r = "ok"
        THEN [attempts |-> attempt, raised |-> NoError, raisedAt |-> 0,
              reads |-> count + 1]
        ELSE IF c > retry_count \/ TimeAt(clock, c + 1) - start_time >= timeout
        THEN [attempts |-> attempt, raised |-> r, raisedAt |-> attempt,
              reads |-> c]
        ELSE commit_loop_retries_any_error(c, start_time, outcomes, clock,
                                           retry_count, timeout)

\* The loop without its second stop condition: the elapsed time is never
\* compared with the timeout.
RECURSIVE commit_loop_ignores_timeout(_, _, _, _, _, _)
commit_loop_ignores_timeout(count, start_time, outcomes, clock, retry_count, timeout) ==
    LET attempt == count + 1
        r == OutcomeAt(outcomes, attempt)
        c == count + 1
    IN  IF r = "ok"
        THEN [attempts |-> attempt, raised |-> NoError, raisedAt |-> 0,
              reads |-> count + 1]
        ELSE IF r # OperationFailure \/ c > retry_count
        THEN [attempts |-> attempt, raised |-> r, raisedAt |-> attempt,
              reads |-> c]
        ELSE commit_loop_ignores_timeout(c, start_time, outcomes, clock,
                                         retry_count, timeout)

\* The loop applying its attempt limit to a successful attempt too: a
\* success at attempt retry_count + 1 comes too late and is reported as a
\* failure.
RECURSIVE commit_loop_limits_success(_, _, _, _, _, _)
commit_loop_limits_success(count, start_time, outcomes, clock, retry_count, timeout) ==
    LET attempt == count + 1
        r == OutcomeAt(outcomes, attempt)
        c == count + 1
    IN  IF r = "ok" /\ attempt <= retry_count
        THEN [attempts |-> attempt, raised |-> NoError, raisedAt |-> 0,
              reads |-> count + 1]
        ELSE IF r # OperationFailure \/ c > retry_count
                  \/ TimeAt(clock, c + 1) - start_time >= timeout
        THEN [attempts |-> attempt,
              raised |-> IF r = "ok" THEN OperationFailure ELSE r,
              raisedAt |-> attempt, reads |-> c]
        ELSE commit_loop_limits_success(c, start_time, outcomes, clock,
                                        retry_count, timeout)

RECURSIVE commit_loop(_, _, _, _, _, _)
commit_loop(count, start_time, outcomes, clock, retry_count, timeout) ==
    LET attempt == count + 1
        r == OutcomeAt(outcomes, attempt)
    IN  IF r = "ok"
        THEN [attempts |-> attempt, raised |-> NoError, raisedAt |-> 0,
              reads |-> count + 1]
        ELSE IF r # OperationFailure
        THEN [attempts |-> attempt, raised |-> r, raisedAt |-> attempt,
              reads |-> count + 1]
        ELSE LET c == count + 1 IN
             IF c > retry_count
             THEN [attempts |-> attempt, raised |-> r, raisedAt |-> attempt,
                   reads |-> c]
             ELSE IF TimeAt(clock, c + 1) - start_time >= timeout
             THEN [attempts |-> attempt, raised |-> r, raisedAt |-> attempt,
                   reads |-> c + 1]
             ELSE commit_loop(c, start_time, outcomes, clock, retry_count, timeout)

commit_with_retry(outcomes, clock, retry_count, timeout) ==
    commit_loop(0, TimeAt(clock, 1), outcomes, clock, retry_count, timeout)

\* ------------------------------------------------------------ class Atomic
\* Atomic.__init__(using, savepoint, durable, client=None)
Atomic(using, savepoint, durable) ==
    [using |-> using, savepoint |-> savepoint, durable |-> durable,
     session |-> None, client |-> NoClient]

\* atomic(using=None, savepoint=True, durable=False), called with arguments
atomic(durable) == Atomic(DEFAULT_DB_ALIAS, TRUE, durable)

\* get_connection(using): connections[using] of the calling thread
get_connection(h, t) == h.conn[t]

\* db.get_new_connection(db.get_connection_params()).client: the wrapper
\* connects and keeps the connection as its client_connection.
get_new_connection(h, t) == [h EXCEPT !.conn[t] = ClientOf(t)]

get_client(h, t, o) ==
    IF h.obj[o].client # NoClient
    THEN [h |-> h, client |-> h.obj[o].client]
    ELSE IF get_connection(h, t) = NoClient
         THEN [h |-> get_new_connection(h, t), client |-> ClientOf(t)]
         ELSE [h |-> h, client |-> get_connection(h, t)]

\* Atomic.start; fail names the backend call that raises, if any.
start(h, t, o, depth, fail) ==
    LET g  == get_client(h, t, o)
        c  == g.client
        h1 == [g.h EXCEPT !.obj[o].client = c]
        s  == Len(h1.sess) + 1
        h2 == [h1 EXCEPT !.sess = Append(@, NewSession(t, c, o, h1.att[c], depth)),
                         !.obj[o].session = s]
        h3 == [h2 EXCEPT !.att[c] = s]
        h4 == [h3 EXCEPT !.sess[s].txn = "open"]
    IN  IF fail = "start_session"
        THEN [h |-> h1, raised |-> StartError, session |-> None]
        ELSE IF fail = "start_transaction"
        THEN [h |-> h3, raised |-> StartError, session |-> s]
        ELSE [h |-> h4, raised |-> NoError, session |-> s]

\* Atomic.clear
clear(h, o) ==
    LET c == h.obj[o].client IN
    IF c # NoClient
    THEN IF h.att[c] = None
         THEN [h |-> h, raised |-> AttributeError]
         ELSE [h |-> [h EXCEPT !.att[c] = None], raised |-> NoError]
    ELSE [h |-> h, raised |-> NoError]

NoCall == [attempts |-> 0, raised |-> NoError, raisedAt |-> 0, reads |-> 0]

\* commit without its in_transaction test: commit_with_retry always runs.
commit_unguarded(h, o, outcomes, clock) ==
    LET s  == h.obj[o].session
        r  == commit_with_retry(outcomes, clock, DefaultRetryCount,
                                DefaultTimeout)
        h1 == [h EXCEPT !.sess[s].txn = IF r.raised = NoError
                                        THEN "committed" ELSE @]
        k  == clear(end_session(h1, s), o)
    IN  IF r.raised # NoError
        THEN [h |-> h1, raised |-> r.raised, commits |-> r.attempts, aborts |-> 0]
        ELSE [h |-> k.h, raised |-> k.raised, commits |-> r.attempts, aborts |-> 0]

\* Atomic.commit
commit(h, o, outcomes, clock) ==
    LET s  == h.obj[o].session
        called == in_transaction(h, s)
        r  == IF called
              THEN commit_with_retry(outcomes, clock, DefaultRetryCount,
                                     DefaultTimeout)
              ELSE NoCall
        h1 == [h EXCEPT !.sess[s].txn = IF called /\ r.raised = NoError
                                        THEN "committed" ELSE @]
        k  == clear(end_session(h1, s), o)
    IN  IF r.raised # NoError
        THEN [h |-> h1, raised |-> r.raised, commits |-> r.attempts, aborts |-> 0]
        ELSE [h |-> k.h, raised |-> k.raised, commits |-> r.attempts, aborts |-> 0]

\* abort swallowing a failure of abort_transaction and going on to clean up.
abort_swallows_failure(h, o, abort_fails) ==
    LET s  == h.obj[o].session
        called == in_transaction(h, s)
        n  == IF called THEN 1 ELSE 0
        h1 == IF called /\ ~abort_fails
              THEN [h EXCEPT !.sess[s].txn = "aborted"]
              ELSE h
        k  == clear(end_session(h1, s), o)
    IN  [h |-> k.h, raised |-> k.raised, commits |-> 0, aborts |-> n]

\* Atomic.abort; abort_fails tells whether session.abort_transaction() raises.
abort(h, o, abort_fails) ==
    LET s  == h.obj[o].session
        called == in_transaction(h, s)
        n  == IF called THEN 1 ELSE 0
        h1 == IF called /\ ~abort_fails
              THEN [h EXCEPT !.sess[s].txn = "aborted"]
              ELSE h
        k  == clear(end_session(h1, s), o)
    IN  IF called /\ abort_fails
        THEN [h |-> h1, raised |-> AbortError, commits |-> 0, aborts |-> n]
        ELSE [h |-> k.h, raised |-> k.raised, commits |-> 0, aborts |-> n]

\* Atomic.__exit__(exc_type, exc_value, traceback)
exit(h, o, exc_type, outcomes, clock, abort_fails) ==
    IF exc_type = NoError
    THEN commit(h, o, outcomes, clock)
    ELSE abort(h, o, abort_fails)

\* ------------------------------------------------------------- the threads
NoExit == [s |-> None, used |-> None, exc_type |-> NoError, raised |-> NoError,
           out |-> NoError, in_txn |-> FALSE, abort_fails |-> FALSE,
           outcomes |-> <<>>, clock |-> <<0>>, commits |-> 0, aborts |-> 0,
           ended |-> FALSE, usedEnded |-> FALSE, detached |-> FALSE]

Init ==
    /\ obj \in {[o \in Objects |-> atomic(IF o = "oa" THEN FALSE ELSE d)] :
                d \in BOOLEAN}
    /\ client_connection = [t \in AllThreads |-> NoClient]
    /\ client_session = [c \in Clients |-> None]
    /\ sessions = <<>>
    /\ stack = [t \in AllThreads |-> <<>>]
    /\ exc = [t \in AllThreads |-> NoError]
    /\ result = [t \in AllThreads |-> NoError]
    /\ lastExit = [t \in AllThreads |-> NoExit]
    /\ faults = {}
    /\ cwr = [called |-> FALSE]

SetHeap(h) ==
    /\ obj' = h.obj
    /\ client_connection' = h.conn
    /\ client_session' = h.att
    /\ sessions' = h.sess

\* An exception leaving the outermost block reaches the caller; inside
\* another block it goes on to that block's __exit__.
Propagate(t, rest, e) ==
    IF rest = <<>>
    THEN /\ result' = [result EXCEPT ![t] = e]
         /\ exc' = [exc EXCEPT ![t] = NoError]
    ELSE /\ exc' = [exc EXCEPT ![t] = e]
         /\ UNCHANGED result

\* `with o:` -- Atomic.__enter__ on thread t, at top level or inside a block.
Enter(t, o, fail) ==
    /\ exc[t] = NoError
    /\ Len(stack[t]) < MaxDepth
    /\ Len(sessions) < MaxSessions
    /\ LET r == start(Heap, t, o, Len(stack[t]) + 1, fail)
       IN  /\ SetHeap(r.h)
           /\ faults' = IF r.raised = NoError THEN faults
                        ELSE faults \cup {"start"}
           /\ IF r.raised = NoError
              THEN /\ stack' = [stack EXCEPT ![t] =
                          Append(@, [o |-> o, s |-> r.session])]
                   /\ UNCHANGED <<exc, result>>
              ELSE /\ Propagate(t, stack[t], r.raised)
                   /\ UNCHANGED stack
    /\ UNCHANGED <<lastExit, cwr>>

\* The guarded block raises.
BlockRaise(t) ==
    /\ stack[t] # <<>>
    /\ exc[t] = NoError
    /\ exc' = [exc EXCEPT ![t] = BlockError]
    /\ faults' = faults \cup {"block"}
    /\ UNCHANGED <<obj, client_connection, client_session, sessions, stack,
                   result, lastExit, cwr>>

\* The guarded block ends the transaction of the current session itself.
BlockEndsTransaction(t, how) ==
    /\ stack[t] # <<>>
    /\ exc[t] = NoError
    /\ client_connection[t] # NoClient
    /\ LET s == client_session[client_connection[t]] IN
       /\ s # None
       /\ sessions[s].txn = "open"
       /\ sessions' = [sessions EXCEPT ![s].txn = how]
    /\ faults' = faults \cup {"own"}
    /\ UNCHANGED <<obj, client_connection, client_session, stack, exc, result,
                   lastExit, cwr>>

\* Leaving the innermost with-block of thread t: Atomic.__exit__ of its
\* object, with the exception that is propagating (if any).
Leave(t, outcomes, clock, abort_fails) ==
    LET f    == stack[t][Len(stack[t])]
        rest == SubSeq(stack[t], 1, Len(stack[t]) - 1)
        used == obj[f.o].session
        r    == exit(Heap, f.o, exc[t], outcomes, clock, abort_fails)
        out  == IF r.raised # NoError THEN r.raised ELSE exc[t]
    IN  /\ SetHeap(r.h)
        /\ stack' = [stack EXCEPT ![t] = rest]
        /\ Propagate(t, rest, out)
        /\ lastExit' = [lastExit EXCEPT ![t] =
               [s |-> f.s, used |-> used, exc_type |-> exc[t],
                raised |-> r.raised, out |-> out,
                in_txn |-> in_transaction(Heap, used),
                abort_fails |-> abort_fails /\ r.aborts > 0,
                outcomes |-> IF r.commits > 0 THEN outcomes ELSE <<>>,
                clock |-> IF r.commits > 0 THEN clock ELSE <<0>>,
                commits |-> r.commits, aborts |-> r.aborts,
                ended |-> r.h.sess[f.s].ended,
                usedEnded |-> r.h.sess[used].ended,
                detached |-> r.h.att[sessions[f.s].client] = None]]
        /\ faults' = faults \cup
               (IF r.commits > 0 /\ r.raised \in {OperationFailure, CommitError}
                THEN {"commit"} ELSE {}) \cup
               (IF r.raised = AbortError THEN {"abort"} ELSE {})
        /\ UNCHANGED cwr

\* The block completed normally: __exit__(None, None, None).
ExitNormal(t, outcomes, clock) ==
    /\ stack[t] # <<>>
    /\ exc[t] = NoError
    /\ Leave(t, outcomes, clock, FALSE)

\* An exception leaves the block: __exit__(exc_type, exc_value, traceback).
ExitError(t, abort_fails) ==
    /\ stack[t] # <<>>
    /\ exc[t] # NoError
    /\ Leave(t, <<>>, <<0>>, abort_fails)

\* ---------------------------------------------------------- input domains
RECURSIVE SeqsUpTo(_, _)
SeqsUpTo(S, n) ==
    IF n = 0 THEN {<<>>}
    ELSE LET shorter == SeqsUpTo(S, n - 1) IN
         shorter \cup {Append(q, x) : q \in {p \in shorter : Len(p) = n - 1}, x \in S}

NonDecreasing(q) == \A i \in 1..(Len(q) - 1) : q[i] <= q[i + 1]

\* Clock scripts of at most n readings (at least the start_time reading).
Clocks(n) ==
    {q \in SeqsUpTo(0..(MaxTimeout + 1), n) : Len(q) >= 1 /\ NonDecreasing(q)}

\* What the scopes' commits meet: success, one transient failure and then
\* success, a non-transient failure, a backend that keeps failing; on a
\* clock that stands still or one that reaches the timeout at once.
ScopeOutcomes == {<<"ok">>, <<OperationFailure, "ok">>, <<CommitError>>, <<>>}
ScopeClocks == {<<0>>, <<0, DefaultTimeout>>}

\* ------------------------------------------------------- specifications
Step(t) ==
    \/ \E o \in Objects, fail \in EnterFailures : Enter(t, o, fail)
    \/ BlockRaise(t)
    \/ \E how \in {"committed", "aborted"} : BlockEndsTransaction(t, how)
    \/ \E outcomes \in ScopeOutcomes, clock \in ScopeClocks :
           ExitNormal(t, outcomes, clock)
    \/ \E abort_fails \in BOOLEAN : ExitError(t, abort_fails)

\* One thread using its connection.
Next == Step("t1")
Spec == Init /\ [][Next]_vars

\* Two threads using the same connection name and the same Atomic objects,
\* their enters and aborts succeeding.
StepMT(t) ==
    \/ \E o \in Objects : Enter(t, o, "none")
    \/ BlockRaise(t)
    \/ \E outcomes \in ScopeOutcomes, clock \in ScopeClocks :
           ExitNormal(t, outcomes, clock)
    \/ ExitError(t, FALSE)

NextMT == \E t \in AllThreads : StepMT(t)
SpecMT == Init /\ [][NextMT]_vars

\* commit_with_retry on its own, over every small script and argument.
CallCommitWithRetry(outcomes, clock, retry_count, timeout) ==
    /\ cwr' = [called |-> TRUE, outcomes |-> outcomes, clock |-> clock,
               retry_count |-> retry_count, timeout |-> timeout,
               r |-> commit_with_retry(outcomes, clock, retry_count, timeout)]
    /\ UNCHANGED <<obj, client_connection, client_session, sessions, stack,
                   exc, result, lastExit, faults>>

InitRetry == Init /\ ~obj["ob"].durable

NextRetry ==
    /\ ~cwr.called
    /\ \E outcomes \in SeqsUpTo(Outcomes, MaxRetry + 1),
          clock \in Clocks(MaxRetry + 1),
          retry_count \in 0..MaxRetry, timeout \in 0..MaxTimeout :
           CallCommitWithRetry(outcomes, clock, retry_count, timeout)
SpecRetry == InitRetry /\ [][NextRetry]_vars

\* ------------------------------------------------------------ the claims
Durable(o) == obj[o].durable
SessionsOf(t) == {s \in DOMAIN sessions : sessions[s].thread = t}
\* Elapsed time the j-th failed attempt of a commit_with_retry call finds.
Elapsed(clock, j) == TimeAt(clock, j + 1) - TimeAt(clock, 1)
\* The script fails with OperationFailure exactly k times and then succeeds.
FailsThenSucceeds(outcomes, k) ==
    /\ Len(outcomes) >= k + 1
    /\ \A i \in 1..k : outcomes[i] = OperationFailure
    /\ outcomes[k + 1] = "ok"
AlwaysTransient(outcomes) ==
    \A i \in 1..Len(outcomes) : outcomes[i] = OperationFailure
Min(S) == CHOOSE x \in S : \A y \in S : x <= y

\* C1: entering a durable scope inside another open scope raises at enter
\* time: the durable scope never becomes an inner block, and no session is
\* created for a durable scope while a session is attached to its client.
C1_DurableNestedRaises ==
    /\ \A t \in AllThreads : \A i \in DOMAIN stack[t] :
           i > 1 => ~Durable(stack[t][i].o)
    /\ \A s \in DOMAIN sessions :
           Durable(sessions[s].obj) => sessions[s].before = None

\* C2: nested non-durable scopes of a thread share one session, created by
\* the outermost of them.
C2_NestedShareOneSession ==
    \A t \in AllThreads : \A i, j \in DOMAIN stack[t] :
        (~Durable(stack[t][i].o) /\ ~Durable(stack[t][j].o))
            => stack[t][i].s = stack[t][j].s

\* C3: after the exit of a block that completed normally, the scope's
\* session is ended and the client has no current-session attribute,
\* whether the commit succeeded or commit_with_retry raised.
C3_NormalExitEndsAndDetaches ==
    \A t \in AllThreads :
        (lastExit[t].s # None /\ lastExit[t].exc_type = NoError)
            => (lastExit[t].ended /\ lastExit[t].detached)

\* C4: after the exit of a block that raised, abort_transaction was called
\* at most once and commit_transaction never, the scope's session is ended
\* and detached, and the exit raised nothing of its own, so the caller sees
\* the block's error.  Stated for runs in which no backend call failed.
C4_ErrorExitAbortsAndPropagates ==
    \A t \in AllThreads :
        (/\ lastExit[t].s # None
         /\ lastExit[t].exc_type # NoError
         /\ faults \subseteq {"block"})
            => /\ lastExit[t].commits = 0
               /\ lastExit[t].aborts <= 1
               /\ lastExit[t].ended
               /\ lastExit[t].detached
               /\ lastExit[t].raised = NoError

\* C5: a thread's session is made on the thread's own client, and an exit
\* works on a session of the thread that runs it.
C5_ThreadsShareNoSession ==
    /\ \A s \in DOMAIN sessions :
           sessions[s].client = ClientOf(sessions[s].thread)
    /\ \A t \in AllThreads :
           lastExit[t].used # None => sessions[lastExit[t].used].thread = t

\* C6: when one Atomic object was entered (also re-entered while active)
\* and every block completed normally with every backend call succeeding,
\* then once the thread is outside all blocks no exit has raised, every
\* transaction is committed and every session ended.
C6_ReentryCommitsEverything ==
    \A t \in AllThreads :
        (/\ stack[t] = <<>>
         /\ faults = {}
         /\ \A s \in DOMAIN sessions : sessions[s].obj = "oa")
            => /\ result[t] = NoError
               /\ \A s \in SessionsOf(t) :
                      sessions[s].txn = "committed" /\ sessions[s].ended

\* C7: against a backend that always fails with OperationFailure,
\* commit_with_retry raises that failure after at most retry_count + 1
\* calls of commit_transaction, namely at the first failed attempt that
\* finds the elapsed time >= timeout, or at attempt retry_count + 1.
C7_AlwaysFailingTerminates ==
    (cwr.called /\ AlwaysTransient(cwr.outcomes))
        => /\ cwr.r.raised = OperationFailure
           /\ cwr.r.attempts <= cwr.retry_count + 1
           /\ cwr.r.attempts =
                  Min({cwr.retry_count + 1} \cup
                      {j \in 1..cwr.retry_count :
                           Elapsed(cwr.clock, j) >= cwr.timeout})

C7_Witness ==
    /\ cwr.called
    /\ AlwaysTransient(cwr.outcomes)
    /\ cwr.retry_count >= 2
    /\ cwr.timeout > 0
    /\ cwr.r.attempts = cwr.retry_count + 1
    /\ cwr.r.raised = OperationFailure

\* C8: when the commit of a scope fails k times with OperationFailure and
\* then succeeds, k below the retry count and every attempt within the
\* timeout, commit_transaction was called k + 1 times and the exit ended
\* the session, detached it and raised nothing.
C8_RetriedCommitExitsCleanly ==
    \A t \in AllThreads : \A k \in 0..(DefaultRetryCount - 1) :
        (/\ lastExit[t].commits > 0
         /\ FailsThenSucceeds(lastExit[t].outcomes, k)
         /\ \A j \in 1..k : Elapsed(lastExit[t].clock, j) < DefaultTimeout)
            => /\ lastExit[t].commits = k + 1
               /\ lastExit[t].raised = NoError
               /\ lastExit[t].ended
               /\ lastExit[t].detached

\* C9: a commit_transaction error other than OperationFailure is raised at
\* once: no attempt follows it, and when the first attempt fails so there
\* is exactly one attempt, whatever retry_count and timeout are.
C9_NonTransientNotRetried ==
    cwr.called
        => /\ \A j \in 1..(cwr.r.attempts - 1) :
                  OutcomeAt(cwr.outcomes, j) # CommitError
           /\ OutcomeAt(cwr.outcomes, 1) = CommitError
                  => /\ cwr.r.attempts = 1
                     /\ cwr.r.raised = CommitError
                     /\ cwr.r.raisedAt = 1

C9_Witness ==
    /\ cwr.called
    /\ OutcomeAt(cwr.outcomes, 1) = CommitError
    /\ cwr.retry_count >= 1
    /\ cwr.timeout >= 1
    /\ cwr.r.attempts = 1
    /\ cwr.r.raised = CommitError

\* C10: when a thread enters and exits non-durable scopes one after the
\* other, never nested, every enter succeeding, then the earlier scope's
\* session is ended exactly once and nothing is attached to the client when
\* the later scope creates its own, distinct session; once the thread is
\* outside all blocks the later session is ended exactly once as well.
C10_SequentialScopesIndependent ==
    \A t \in AllThreads :
        (/\ "start" \notin faults
         /\ \A s \in SessionsOf(t) :
                sessions[s].depth = 1 /\ ~Durable(sessions[s].obj))
            => \A s1, s2 \in SessionsOf(t) :
                   s1 < s2 => /\ sessions[s1].ended
                              /\ sessions[s1].ends = 1
                              /\ sessions[s2].before = None
                              /\ stack[t] = <<>> =>
                                     (sessions[s2].ended /\ sessions[s2].ends = 1)

\* C11: whatever scopes a thread entered and left, nested ones included,
\* the exit of an outermost scope removes the current-session attribute
\* and clear() does not raise.  Stated for runs in which every block
\* completed normally and no backend call failed.
C11_DetachOnceNeverRaises ==
    \A t \in AllThreads :
        (/\ lastExit[t].s # None
         /\ sessions[lastExit[t].s].depth = 1
         /\ faults = {})
            => /\ lastExit[t].raised # AttributeError
               /\ lastExit[t].detached

\* C12: while a thread is inside a guarded block (no exception under way,
\* the block not having ended the transaction itself), the client of the
\* block's scope has a current session attached and that session's
\* transaction is open, also after an inner scope has exited.
C12_BlockFindsCurrentSession ==
    \A t \in AllThreads :
        (/\ stack[t] # <<>>
         /\ exc[t] = NoError
         /\ faults = {})
            => LET c == sessions[stack[t][Len(stack[t])].s].client IN
               /\ client_session[c] # None
               /\ sessions[client_session[c]].txn = "open"

\* C13: a callable wrapped by atomic holds one Atomic object ("oa", made
\* with the defaults of the bare form) and every invocation enters and
\* exits it.  Once the thread is outside the callable, invocations never
\* nested and every enter having succeeded, the object still has the
\* default connection, savepoint = TRUE and durable = FALSE, and every
\* invocation's session had its transaction started, is ended, and no
\* session is attached to the client.
C13_WrappedCallRunsInOwnScope ==
    \A t \in AllThreads :
        (/\ stack[t] = <<>>
         /\ "start" \notin faults
         /\ \A s \in DOMAIN sessions :
                sessions[s].obj = "oa" /\ sessions[s].depth = 1)
            => /\ obj["oa"].using = DEFAULT_DB_ALIAS
               /\ obj["oa"].savepoint
               /\ ~obj["oa"].durable
               /\ \A s \in SessionsOf(t) :
                      /\ sessions[s].txn # "none"
                      /\ sessions[s].ended
                      /\ client_session[sessions[s].client] = None

\* C14: in commit_with_retry every failed transient attempt is followed by
\* both stop tests: the loop goes on to another attempt only after an
\* OperationFailure that found the count within retry_count and the elapsed
\* time below the timeout, and an attempt failing with OperationFailure is
\* the last one exactly when its count exceeds retry_count or its elapsed
\* time has reached the timeout; the error raised is that of the most
\* recent attempt.
C14_BothLimitsCheckedLastErrorRaised ==
    cwr.called
        => LET n == cwr.r.attempts IN
           /\ \A j \in 1..(n - 1) :
                  /\ OutcomeAt(cwr.outcomes, j) = OperationFailure
                  /\ j <= cwr.retry_count
                  /\ Elapsed(cwr.clock, j) < cwr.timeout
           /\ OutcomeAt(cwr.outcomes, n) = OperationFailure
                  => /\ cwr.r.raised = OperationFailure
                     /\ \/ n > cwr.retry_count
                        \/ Elapsed(cwr.clock, n) >= cwr.timeout
           /\ cwr.r.raised # NoError
                  => /\ cwr.r.raisedAt = n
                     /\ cwr.r.raised = OutcomeAt(cwr.outcomes, n)

\* The timeout trips at the second failed attempt, the count not yet.
C14_Witness ==
    /\ cwr.called
    /\ cwr.r.raised = OperationFailure
    /\ cwr.r.attempts = 2
    /\ cwr.r.raisedAt = 2
    /\ cwr.retry_count >= 2
    /\ Elapsed(cwr.clock, 1) < cwr.timeout
    /\ Elapsed(cwr.clock, 2) >= cwr.timeout

\* C15: the exit of a block that raised calls abort_transaction at most
\* once and commit_transaction never; when abort_transaction raises, it was
\* called exactly once and its error, not the block's, is what the exit
\* raises and what goes on to the caller (out).
C15_AbortOnceFailurePropagates ==
    \A t \in AllThreads :
        (lastExit[t].s # None /\ lastExit[t].exc_type # NoError)
            => /\ lastExit[t].aborts <= 1
               /\ lastExit[t].commits = 0
               /\ lastExit[t].abort_fails
                      => /\ lastExit[t].aborts = 1
                         /\ lastExit[t].raised = AbortError
                         /\ lastExit[t].out = AbortError

\* A block raised, abort_transaction raised in its exit, and the caller of
\* the outermost scope got the abort failure.
C15_Witness ==
    /\ lastExit["t1"].s # None
    /\ lastExit["t1"].exc_type = BlockError
    /\ lastExit["t1"].abort_fails
    /\ lastExit["t1"].aborts = 1
    /\ stack["t1"] = <<>>
    /\ result["t1"] = AbortError

\* C16: an exit calls commit_transaction or abort_transaction only if the
\* session of the scope object reported in_transaction, and then it calls
\* the one its kind of exit asks for; when the session is not in a
\* transaction at exit, neither is called, the session is ended all the
\* same and the client is left without a current-session attribute.
C16_EndsTransactionOnlyIfOpen ==
    \A t \in AllThreads :
        lastExit[t].s # None
            => /\ (lastExit[t].commits > 0 \/ lastExit[t].aborts > 0)
                      => lastExit[t].in_txn
               /\ lastExit[t].in_txn
                      => IF lastExit[t].exc_type = NoError
                         THEN lastExit[t].commits >= 1 /\ lastExit[t].aborts = 0
                         ELSE lastExit[t].aborts = 1 /\ lastExit[t].commits = 0
               /\ ~lastExit[t].in_txn
                      => /\ lastExit[t].commits = 0
                         /\ lastExit[t].aborts = 0
                         /\ lastExit[t].usedEnded
                         /\ lastExit[t].detached

\* The block ended the transaction itself; the exit called neither commit
\* nor abort, ended the session and detached it.
C16_Witness ==
    /\ lastExit["t1"].s # None
    /\ "own" \in faults
    /\ ~lastExit["t1"].in_txn
    /\ lastExit["t1"].commits = 0
    /\ lastExit["t1"].aborts = 0
    /\ lastExit["t1"].usedEnded
    /\ lastExit["t1"].detached
    /\ lastExit["t1"].raised = NoError

\* C17: a failed enter leaves nothing behind: a session whose transaction
\* was never started (start_transaction raised) is ended and is not the
\* current session of its client, and a failed enter attaches nothing to
\* a client that had nothing attached.
C17_FailedEnterLeavesNothing ==
    \A s \in DOMAIN sessions :
        sessions[s].txn = "none"
            => /\ sessions[s].ended
               /\ client_session[sessions[s].client] # s

\* C18: commit_with_retry raises only the failure of its last
\* commit_transaction attempt; an attempt that succeeds is the last one and
\* the call returns normally, whatever the count and the clock say: after k
\* transient failures that each found the count within retry_count
\* (k <= retry_count) and the elapsed time below the timeout, a success at
\* attempt k + 1 ends the call without an error, also when k = retry_count
\* or when the clock has passed the timeout by then.
C18_SuccessEndsLoop ==
    cwr.called
        => LET n == cwr.r.attempts IN
           /\ cwr.r.raised # NoError => OutcomeAt(cwr.outcomes, n) # "ok"
           /\ OutcomeAt(cwr.outcomes, n) = "ok" => cwr.r.raised = NoError
           /\ \A j \in 1..(n - 1) : OutcomeAt(cwr.outcomes, j) # "ok"
           /\ \A k \in 0..cwr.retry_count :
                  (/\ FailsThenSucceeds(cwr.outcomes, k)
                   /\ \A j \in 1..k : Elapsed(cwr.clock, j) < cwr.timeout)
                      => n = k + 1 /\ cwr.r.raised = NoError

\* The (retry_count + 1)-th attempt succeeds while the clock has already
\* reached the timeout.
C18_Witness ==
    /\ cwr.called
    /\ cwr.retry_count >= 1
    /\ FailsThenSucceeds(cwr.outcomes, cwr.retry_count)
    /\ cwr.r.attempts = cwr.retry_count + 1
    /\ cwr.r.raised = NoError
    /\ Elapsed(cwr.clock, cwr.retry_count + 1) >= cwr.timeout
    /\ cwr.timeout > 0

====
